---- MODULE Spec2Model ----
(***************************************************************************)
(* tap-avantlink: the extraction pipeline of src/tap_avantlink.            *)
(*                                                                         *)
(*   client.py   DayChunkPaginator, TapAvantlinkStream (request            *)
(*               parameters, CSV parsing, key sanitization)                *)
(*   streams.py  set_none_or_cast, SalesStream.post_process,               *)
(*               SalesHitsStream.post_process                              *)
(*                                                                         *)
(* Text is modelled by what the code does to it.  A field value is a       *)
(* sequence of one-character strings.  A column name is a sequence of      *)
(* tokens: each of the characters the sanitizer rewrites is a token of     *)
(* its own, every other run of characters is one token.  A Python value    *)
(* is a record tagged with its type.  A function that can raise returns    *)
(* a record whose exc field names the exception ("none" when it returns).  *)
(***************************************************************************)
EXTENDS Integers, Sequences, FiniteSets, TLC

(***************************************************************************)
(* Python values                                                           *)
(***************************************************************************)
PyNone == [t |-> "None", s |-> <<>>, n |-> 0, k |-> 0]

PyStr(s) == [t |-> "str", s |-> s, n |-> 0, k |-> 0]

PyInt(n) == [t |-> "int", s |-> <<>>, n |-> n, k |-> 0]

\* a list of n strings (the surplus fields csv.DictReader stores under restkey)
PyList(n) == [t |-> "list", s |-> <<>>, n |-> n, k |-> 0]

RECURSIVE NormFloat(_, _)
\* the float n / 10^k, in lowest decimal terms so that equal floats are equal
NormFloat(n, k) ==
  IF n = 0 THEN [t |-> "float", s |-> <<>>, n |-> 0, k |-> 0]
  ELSE IF k > 0 /\ n % 10 = 0 THEN NormFloat(n \div 10, k - 1)
  ELSE [t |-> "float", s |-> <<>>, n |-> n, k |-> k]

PyFloat(n, k) == NormFloat(n, k)

(***************************************************************************)
(* Strings                                                                 *)
(***************************************************************************)
DigitChar == <<"0", "1", "2", "3", "4", "5", "6", "7", "8", "9">>

Digits == {DigitChar[i] : i \in 1..10}

DigitVal(c) == (CHOOSE i \in 1..10 : DigitChar[i] = c) - 1

IsDigits(s) == s # <<>> /\ \A i \in 1..Len(s) : s[i] \in Digits

RECURSIVE ToNat(_)
ToNat(s) ==
  IF s = <<>> THEN 0
  ELSE ToNat(SubSeq(s, 1, Len(s) - 1)) * 10 + DigitVal(s[Len(s)])

Pad2(n) == <<DigitChar[((n \div 10) % 10) + 1], DigitChar[(n % 10) + 1]>>

Pad4(n) == Pad2(n \div 100) \o Pad2(n % 100)

RECURSIVE StrReplace(_, _, _)
\* str.replace(old, new) for a one-character old
StrReplace(s, old, new) ==
  IF s = <<>> THEN <<>>
  ELSE (IF Head(s) = old THEN new ELSE <<Head(s)>>) \o StrReplace(Tail(s), old, new)

RECURSIVE LStrip(_)
LStrip(s) == IF s # <<>> /\ Head(s) = " " THEN LStrip(Tail(s)) ELSE s

RECURSIVE RStrip(_)
RStrip(s) ==
  IF s # <<>> /\ s[Len(s)] = " " THEN RStrip(SubSeq(s, 1, Len(s) - 1)) ELSE s

Strip(s) == RStrip(LStrip(s))

\* the position of the first c in s, 0 when there is none
IndexOf(s, c) ==
  IF \E i \in 1..Len(s) : s[i] = c
  THEN CHOOSE i \in 1..Len(s) : s[i] = c /\ \A j \in 1..(i - 1) : s[j] # c
  ELSE 0

(***************************************************************************)
(* Dictionaries: a sequence of (key, value) pairs with distinct keys, in   *)
(* insertion order.                                                        *)
(***************************************************************************)
\* the key None of a Python dict (csv.DictReader's restkey)
NoneKey == <<"None">>

DictHas(d, key) == \E i \in 1..Len(d) : d[i].k = key

DictGet(d, key) == d[CHOOSE i \in 1..Len(d) : d[i].k = key].v

\* d[key] = val: overwrite in place, or insert at the end
DictSet(d, key, val) ==
  IF DictHas(d, key)
  THEN [i \in 1..Len(d) |-> IF d[i].k = key THEN [k |-> key, v |-> val] ELSE d[i]]
  ELSE Append(d, [k |-> key, v |-> val])

(***************************************************************************)
(* client.py: key sanitization                                             *)
(***************************************************************************)
\* the characters of the class [ \-&\/]
SpecialChars == {" ", "-", "&", "/"}

\* re.sub("[ \\-&\\/]", "_", key); re.sub raises TypeError on the key None
replace_special_chars(key) ==
  IF key = NoneKey THEN [exc |-> "TypeError", key |-> key]
  ELSE [exc |-> "none",
        key |-> [i \in 1..Len(key) |->
                   IF key[i] \in SpecialChars THEN "_" ELSE key[i]]]

RECURSIVE SanitizeItems(_, _, _)
\* the dict comprehension of sanitize_keys over the items of a row from
\* position i on; the values of a parsed row are strings, None or a list of
\* strings, which sanitize_keys returns unchanged
SanitizeItems(row, i, acc) ==
  IF i > Len(row) THEN [exc |-> "none", row |-> acc]
  ELSE LET r == replace_special_chars(row[i].k)
       IN IF r.exc # "none" THEN [exc |-> r.exc, row |-> acc]
          ELSE SanitizeItems(row, i + 1, DictSet(acc, r.key, row[i].v))

sanitize_keys(row) == SanitizeItems(row, 1, <<>>)

(***************************************************************************)
(* client.py: parse_response (csv.DictReader over the response text)       *)
(* A response body is the sequence of rows csv.reader splits it into: each *)
(* a sequence of fields, a blank line the empty sequence.                  *)
(***************************************************************************)
RECURSIVE ZipRow(_, _, _, _)
\* dict(zip(fieldnames, row))
ZipRow(fieldnames, row, i, acc) ==
  IF i > Len(fieldnames) \/ i > Len(row) THEN acc
  ELSE ZipRow(fieldnames, row, i + 1, DictSet(acc, fieldnames[i], PyStr(row[i])))

RECURSIVE RestVal(_, _, _)
\* for key in fieldnames[lr:]: d[key] = restval (None)
RestVal(fieldnames, i, acc) ==
  IF i > Len(fieldnames) THEN acc
  ELSE RestVal(fieldnames, i + 1, DictSet(acc, fieldnames[i], PyNone))

\* DictReader.__next__ for one non-blank row
DictRow(fieldnames, row) ==
  LET d  == ZipRow(fieldnames, row, 1, <<>>)
      lf == Len(fieldnames)
      lr == Len(row)
  IN IF lf < lr THEN DictSet(d, NoneKey, PyList(lr - lf))
     ELSE IF lf > lr THEN RestVal(fieldnames, lr + 1, d)
     ELSE d

RECURSIVE DictRows(_, _)
DictRows(fieldnames, rows) ==
  IF rows = <<>> THEN <<>>
  ELSE IF Head(rows) = <<>> THEN DictRows(fieldnames, Tail(rows))
  ELSE <<DictRow(fieldnames, Head(rows))>> \o DictRows(fieldnames, Tail(rows))

\* the rows parse_response yields: the first row read is the header
parse_response(body) ==
  IF body = <<>> THEN <<>> ELSE DictRows(Head(body), Tail(body))

(***************************************************************************)
(* streams.py: casts                                                       *)
(***************************************************************************)
\* the sign and the unsigned rest of a stripped numeric literal
SignOf(s) == IF s # <<>> /\ Head(s) = "-" THEN -1 ELSE 1

Unsigned(s) == IF s # <<>> /\ Head(s) \in {"-", "+"} THEN Tail(s) ELSE s

\* int(str): optional blanks, an optional sign, decimal digits (digit
\* grouping with underscores is left out)
IntOfStr(s) ==
  LET u == Unsigned(Strip(s))
  IN IF IsDigits(u) THEN [exc |-> "none", v |-> PyInt(SignOf(Strip(s)) * ToNat(u))]
     ELSE [exc |-> "ValueError", v |-> PyStr(s)]

\* float(str): optional blanks, an optional sign, digits with at most one point
\* and a digit on one side of it at least (exponents, inf and nan are left out)
FloatOfStr(s) ==
  LET u   == Unsigned(Strip(s))
      p   == IndexOf(u, ".")
      ip  == IF p = 0 THEN u ELSE SubSeq(u, 1, p - 1)
      fp  == IF p = 0 THEN <<>> ELSE SubSeq(u, p + 1, Len(u))
      ok  == /\ ip \o fp # <<>>
             /\ \A i \in 1..Len(ip) : ip[i] \in Digits
             /\ \A i \in 1..Len(fp) : fp[i] \in Digits
  IN IF ok THEN [exc |-> "none",
                 v |-> PyFloat(SignOf(Strip(s)) * ToNat(ip \o fp), Len(fp))]
     ELSE [exc |-> "ValueError", v |-> PyStr(s)]

\* expected_type(value) for a value that is not of the expected type
CastTo(value, expected_type) ==
  CASE value.t = "str" /\ expected_type = "int"   -> IntOfStr(value.s)
    [] value.t = "str" /\ expected_type = "float" -> FloatOfStr(value.s)
    [] value.t = "int" /\ expected_type = "float" ->
         [exc |-> "none", v |-> PyFloat(value.n, 0)]
    [] OTHER -> [exc |-> "TypeError", v |-> value]

set_none_or_cast(value, expected_type) ==
  IF value = PyStr(<<>>) \/ value = PyNone THEN [exc |-> "none", v |-> PyNone]
  ELSE IF value.t # expected_type THEN CastTo(value, expected_type)
  ELSE [exc |-> "none", v |-> value]

\* value.replace('$', '').replace('(', '-').replace(')', '')
StripCurrency(value) ==
  IF value.t # "str" THEN [exc |-> "AttributeError", v |-> value]
  ELSE [exc |-> "none",
        v |-> PyStr(StrReplace(StrReplace(StrReplace(value.s, "$", <<>>),
                                          "(", <<"-">>), ")", <<>>))]

(***************************************************************************)
(* client.py: TapAvantlinkStream.post_process                              *)
(* The state of a post_process call: the row being rewritten, the         *)
(* exception that left it ("none" while it runs), and the columns whose    *)
(* conversion failure was caught and printed.                              *)
(***************************************************************************)
BasePostProcess(row) ==
  LET r == sanitize_keys(row)
  IN [exc |-> r.exc, row |-> r.row, log |-> <<>>]

(***************************************************************************)
(* streams.py: SalesStream.post_process                                    *)
(***************************************************************************)
Col(a, b) == <<a, "_", b>>

SalesIntCols == <<Col("Merchant", "Id"), Col("Item", "Count"), Col("Website", "Id")>>

SalesFloatCols ==
  <<Col("Total", "Commission"), Col("Incentive", "Commission"),
    Col("Base", "Commission"), Col("Transaction", "Amount")>>

\* one iteration of the int_col loop
SalesIntStep(st, col) ==
  IF st.exc # "none" THEN st
  ELSE IF ~DictHas(st.row, col) THEN [st EXCEPT !.exc = "KeyError"]
  ELSE LET r == set_none_or_cast(DictGet(st.row, col), "int")
       IN IF r.exc = "ValueError" THEN [st EXCEPT !.log = Append(@, col)]
          ELSE IF r.exc # "none" THEN [st EXCEPT !.exc = r.exc]
          ELSE [st EXCEPT !.row = DictSet(@, col, r.v)]

\* one iteration of the float_col loop: the stripped string is stored before
\* the cast is tried
SalesFloatStep(st, col) ==
  IF st.exc # "none" THEN st
  ELSE IF ~DictHas(st.row, col) THEN [st EXCEPT !.exc = "KeyError"]
  ELSE LET c == StripCurrency(DictGet(st.row, col))
       IN IF c.exc # "none" THEN [st EXCEPT !.exc = c.exc]
          ELSE LET row1 == DictSet(st.row, col, c.v)
                   r    == set_none_or_cast(c.v, "float")
               IN IF r.exc = "ValueError"
                  THEN [st EXCEPT !.row = row1, !.log = Append(@, col)]
                  ELSE IF r.exc # "none" THEN [st EXCEPT !.row = row1, !.exc = r.exc]
                  ELSE [st EXCEPT !.row = DictSet(row1, col, r.v)]

RECURSIVE SalesIntLoop(_, _, _)
SalesIntLoop(st, cols, i) ==
  IF i > Len(cols) THEN st ELSE SalesIntLoop(SalesIntStep(st, cols[i]), cols, i + 1)

RECURSIVE SalesFloatLoop(_, _, _)
SalesFloatLoop(st, cols, i) ==
  IF i > Len(cols) THEN st ELSE SalesFloatLoop(SalesFloatStep(st, cols[i]), cols, i + 1)

SalesPostProcess(row) ==
  SalesFloatLoop(SalesIntLoop(BasePostProcess(row), SalesIntCols, 1), SalesFloatCols, 1)

(***************************************************************************)
(* streams.py: SalesHitsStream.post_process                                *)
(***************************************************************************)
DateCol == <<"Date">>

AmountCol == Col("Transaction", "Amount")

IsLeap(y) == (y % 4 = 0 /\ y % 100 # 0) \/ y % 400 = 0

DaysInMonth(y, m) ==
  IF m = 2 THEN (IF IsLeap(y) THEN 29 ELSE 28)
  ELSE IF m \in {4, 6, 9, 11} THEN 30 ELSE 31

\* one or two digits
Digits12(s) == IsDigits(s) /\ Len(s) <= 2

\* datetime.strptime(s, '%m/%d/%Y %H:%M'); the directive %d also takes a
\* blank followed by one digit, and the blank of the format any run of blanks
StrpDate(s) ==
  LET bad == [exc |-> "ValueError", Y |-> 0, m |-> 0, d |-> 0, H |-> 0, M |-> 0]
      p1  == IndexOf(s, "/")
      ms  == SubSeq(s, 1, p1 - 1)
      r1  == SubSeq(s, p1 + 1, Len(s))
      p2  == IndexOf(r1, "/")
      ds0 == SubSeq(r1, 1, p2 - 1)
      ds  == IF Len(ds0) = 2 /\ ds0[1] = " " THEN Tail(ds0) ELSE ds0
      r2  == SubSeq(r1, p2 + 1, Len(r1))
      p3  == IndexOf(r2, " ")
      ys  == SubSeq(r2, 1, p3 - 1)
      r3  == LStrip(SubSeq(r2, p3 + 1, Len(r2)))
      p4  == IndexOf(r3, ":")
      hs  == SubSeq(r3, 1, p4 - 1)
      mns == SubSeq(r3, p4 + 1, Len(r3))
  IN IF p1 = 0 \/ p2 = 0 \/ p3 = 0 \/ p4 = 0 THEN bad
     ELSE IF ~(Digits12(ms) /\ Digits12(ds) /\ IsDigits(ys) /\ Len(ys) = 4
               /\ Digits12(hs) /\ Digits12(mns)) THEN bad
     ELSE LET Y == ToNat(ys)  m == ToNat(ms)  d == ToNat(ds)
              H == ToNat(hs)  M == ToNat(mns)
          IN IF m \in 1..12 /\ d \in 1..31 /\ H \in 0..23 /\ M \in 0..59
                /\ Y >= 1 /\ d <= DaysInMonth(Y, m)
             THEN [exc |-> "none", Y |-> Y, m |-> m, d |-> d, H |-> H, M |-> M]
             ELSE bad

\* datetime.strftime(dt, '%Y-%m-%d %H:%M:%S') of a parsed date (seconds 0)
StrfDate(dt) ==
  Pad4(dt.Y) \o <<"-">> \o Pad2(dt.m) \o <<"-">> \o Pad2(dt.d) \o <<" ">>
  \o Pad2(dt.H) \o <<":">> \o Pad2(dt.M) \o <<":", "0", "0">>

\* strftime(strptime(value, ...), ...); strptime raises TypeError on a value
\* that is no string
ReformatDate(value) ==
  IF value.t # "str" THEN [exc |-> "TypeError", v |-> value]
  ELSE LET dt == StrpDate(value.s)
       IN IF dt.exc # "none" THEN [exc |-> dt.exc, v |-> value]
          ELSE [exc |-> "none", v |-> PyStr(StrfDate(dt))]

\* the Date reformat wrapped in the try/except of the other fields
HitsDateStepFailSoft(st) ==
  IF st.exc # "none" THEN st
  ELSE IF ~DictHas(st.row, DateCol) THEN [st EXCEPT !.exc = "KeyError"]
  ELSE LET r == ReformatDate(DictGet(st.row, DateCol))
       IN IF r.exc = "ValueError" THEN [st EXCEPT !.log = Append(@, DateCol)]
          ELSE IF r.exc # "none" THEN [st EXCEPT !.exc = r.exc]
          ELSE [st EXCEPT !.row = DictSet(@, DateCol, r.v)]

\* line 226
HitsDateStep(st) ==
  IF st.exc # "none" THEN st
  ELSE IF ~DictHas(st.row, DateCol) THEN [st EXCEPT !.exc = "KeyError"]
  ELSE LET r == ReformatDate(DictGet(st.row, DateCol))
       IN IF r.exc # "none" THEN [st EXCEPT !.exc = r.exc]
          ELSE [st EXCEPT !.row = DictSet(@, DateCol, r.v)]

\* lines 227-228
HitsStripStep(st) ==
  IF st.exc # "none" \/ ~DictHas(st.row, AmountCol) THEN st
  ELSE LET c == StripCurrency(DictGet(st.row, AmountCol))
       IN IF c.exc # "none" THEN [st EXCEPT !.exc = c.exc]
          ELSE [st EXCEPT !.row = DictSet(@, AmountCol, c.v)]

\* lines 229-232: float() is applied to the value itself, with no test for
\* the empty string
HitsFloatStep(st) ==
  IF st.exc # "none" THEN st
  ELSE IF ~DictHas(st.row, AmountCol) THEN [st EXCEPT !.exc = "KeyError"]
  ELSE LET v == DictGet(st.row, AmountCol)
           r == IF v.t = "float" THEN [exc |-> "none", v |-> v] ELSE CastTo(v, "float")
       IN IF r.exc = "ValueError" THEN [st EXCEPT !.log = Append(@, AmountCol)]
          ELSE IF r.exc # "none" THEN [st EXCEPT !.exc = r.exc]
          ELSE [st EXCEPT !.row = DictSet(@, AmountCol, r.v)]

SalesHitsPostProcess(row) ==
  HitsFloatStep(HitsStripStep(HitsDateStep(BasePostProcess(row))))

\* the post_process of the stream's class
PostProcess(stream, row) ==
  IF stream = "sales" THEN SalesPostProcess(row) ELSE SalesHitsPostProcess(row)

(***************************************************************************)
(* client.py: DayChunkPaginator                                            *)
(* A datetime is a number of clock ticks, TicksPerDay of them to the day;  *)
(* a date is a day number.  timedelta(days=n) is n * TicksPerDay ticks.    *)
(***************************************************************************)
TicksPerDay == 2

Days(n) == n * TicksPerDay

\* the configured start_date: absent (None), a date in the form %Y-%m-%d, or
\* a string that is not in that form
NoStartDate == [t |-> "None", ok |-> FALSE, day |-> 0]

StartDateStr(d) == [t |-> "str", ok |-> TRUE, day |-> d]

BadStartDate == [t |-> "str", ok |-> FALSE, day |-> 0]

\* a start date parser that falls back to day 0 when there is no start_date
StrpStartDateOrDefault(start_date) ==
  IF start_date.t # "str" THEN [exc |-> "none", v |-> 0]
  ELSE IF ~start_date.ok THEN [exc |-> "ValueError", v |-> 0]
  ELSE [exc |-> "none", v |-> Days(start_date.day)]

\* datetime.strptime(start_date, "%Y-%m-%d"): midnight of the day
StrpStartDate(start_date) ==
  IF start_date.t # "str" THEN [exc |-> "TypeError", v |-> 0]
  ELSE IF ~start_date.ok THEN [exc |-> "ValueError", v |-> 0]
  ELSE [exc |-> "none", v |-> Days(start_date.day)]

NoPaginator == [made |-> FALSE, value |-> 0, end |-> 0, increment |-> 0, finished |-> FALSE]

\* DayChunkPaginator.__init__; today is what datetime.today() returns
NewPaginator(start_date, increment, today) ==
  LET v == StrpStartDate(start_date)
  IN IF v.exc # "none" THEN [exc |-> v.exc, pag |-> NoPaginator]
     ELSE [exc |-> "none",
           pag |-> [made |-> TRUE, value |-> v.v, end |-> today,
                    increment |-> increment, finished |-> FALSE]]

has_more(p, response) == p.value < p.end

\* get_next with a window that is one day short
get_next_short(p, response) ==
  IF p.value < p.end
  THEN [none |-> FALSE, v |-> p.value + Days(p.increment - 1)]
  ELSE [none |-> TRUE, v |-> 0]

\* None is [none |-> TRUE]
get_next(p, response) ==
  IF has_more(p, response)
  THEN [none |-> FALSE, v |-> p.value + Days(p.increment)]
  ELSE [none |-> TRUE, v |-> 0]

\* the advance() DayChunkPaginator inherits from BaseAPIPaginator: it stops
\* when has_more is false or get_next returns nothing, and refuses a value
\* equal to the current one (its page counter, which nothing reads, is left out)
advance(p, response) ==
  IF ~has_more(p, response) THEN [exc |-> "none", pag |-> [p EXCEPT !.finished = TRUE]]
  ELSE LET new == get_next(p, response)
       IN IF ~new.none /\ new.v = p.value THEN [exc |-> "RuntimeError", pag |-> p]
          ELSE IF new.none THEN [exc |-> "none", pag |-> [p EXCEPT !.finished = TRUE]]
          ELSE [exc |-> "none", pag |-> [p EXCEPT !.value = new.v]]

(***************************************************************************)
(* client.py: get_new_paginator, get_url_params                            *)
(***************************************************************************)
PageIncrement == 28

WindowDays == 28

get_new_paginator(start_date, today) == NewPaginator(start_date, PageIncrement, today)

\* strftime / strptime with "%Y-%m-%d %H:%M:%S": the text is a date and a time
\* of day
FormatDT(dt) == <<dt \div TicksPerDay, dt % TicksPerDay>>

ParseDT(text) == Days(text[1]) + text[2]

ReportId(stream) == IF stream = "sales" THEN "8" ELSE "19"

\* get_url_params with an inclusive date_end: the last day of the window
get_url_params_inclusive(stream, next_page_token) ==
  LET next_page_date == FormatDT(next_page_token)
      end_datetime   == ParseDT(next_page_date) + Days(WindowDays - 1)
  IN [report_id  |-> ReportId(stream),
      date_begin |-> next_page_date,
      date_end   |-> FormatDT(end_datetime)]

get_url_params(stream, next_page_token) ==
  LET next_page_date == FormatDT(next_page_token)
      end_datetime   == ParseDT(next_page_date) + Days(WindowDays)
  IN [report_id  |-> ReportId(stream),
      date_begin |-> next_page_date,
      date_end   |-> FormatDT(end_datetime)]

(***************************************************************************)
(* Response bodies the endpoint may return                                 *)
(***************************************************************************)
SalesHeader ==
  <<<<"Merchant", " ", "Id">>,
    <<"Item", " ", "Count">>,
    <<"Website", " ", "Id">>,
    <<"Total", " ", "Commission">>,
    <<"Incentive", " ", "Commission">>,
    <<"Base", " ", "Commission">>,
    <<"Transaction", " ", "Amount">>>>

\* the header of a report that carries three of the columns only
ShortSalesHeader == <<<<"Merchant", " ", "Id">>, <<"Item", " ", "Count">>, <<"Total", " ", "Commission">>>>

HitsHeader == <<<<"Date">>, <<"Transaction", " ", "Amount">>>>

DateOnlyHeader == <<<<"Date">>>>

SalesRowA ==
  <<<<"7">>, <<"3">>, <<"1">>, <<"$", "1", "0", ".", "0", "0">>, <<"$", "0", ".", "0", "0">>, <<"(", "2", ".", "0", "0", ")">>, <<"(", "$", "1", "2", ".", "5", "0", ")">>>>

SalesRowB ==
  <<<<"8">>, <<>>, <<"2">>, <<"(", "2", ".", "0", "0", ")">>, <<>>, <<"$", "0", ".", "0", "0">>, <<"$", "1", "0", ".", "0", "0">>>>

SalesRowBadInt ==
  <<<<"8">>, <<"a", "b", "c">>, <<"2">>, <<"$", "1", "0", ".", "0", "0">>, <<"$", "0", ".", "0", "0">>, <<"(", "2", ".", "0", "0", ")">>, <<"$", "0", ".", "0", "0">>>>

SalesRowBadCurrency ==
  <<<<"7">>, <<"3">>, <<"1">>, <<"$", "1", "0", ".", "0", "0">>, <<"N", "/", "A">>, <<"$", "1", ",", "2", "3", "4", ".", "5", "0">>, <<"(", "$", "N", "/", "A", ")">>>>

SalesRowFewer ==
  <<<<"7">>, <<"3">>, <<"1">>>>

SalesRowMore ==
  <<<<"7">>, <<"3">>, <<"1">>, <<"$", "1", "0", ".", "0", "0">>, <<"$", "0", ".", "0", "0">>, <<"(", "2", ".", "0", "0", ")">>, <<"$", "0", ".", "0", "0">>, <<"x">>>>

ShortRowA ==
  <<<<"7">>, <<"3">>, <<"$", "1", "0", ".", "0", "0">>>>

ShortRowB ==
  <<<<"8">>, <<>>, <<"(", "2", ".", "0", "0", ")">>>>

HitsRowA ==
  <<<<"3", "/", "4", "/", "2", "0", "2", "3", " ", "1", "3", ":", "0", "5">>, <<"(", "$", "1", "2", ".", "5", "0", ")">>>>

HitsRowB ==
  <<<<"1", "2", "/", "3", "1", "/", "2", "0", "2", "4", " ", "2", "3", ":", "5", "9">>, <<"$", "0", ".", "0", "0">>>>

HitsRowEmptyAmount ==
  <<<<"0", "3", "/", "0", "4", "/", "2", "0", "2", "3", " ", "0", "1", ":", "0", "5">>, <<>>>>

HitsRowBadAmount ==
  <<<<"2", "/", "2", "9", "/", "2", "0", "2", "4", " ", "0", ":", "0">>, <<"N", "/", "A">>>>

HitsRowIsoDate ==
  <<<<"2", "0", "2", "3", "-", "0", "3", "-", "0", "4", " ", "1", "3", ":", "0", "5">>, <<"$", "0", ".", "0", "0">>>>

HitsRowBadDay ==
  <<<<"2", "/", "3", "0", "/", "2", "0", "2", "3", " ", "1", "3", ":", "0", "5">>, <<"$", "0", ".", "0", "0">>>>

HitsRowFewer ==
  <<<<"3", "/", "4", "/", "2", "0", "2", "3", " ", "1", "3", ":", "0", "5">>>>

SalesBodies ==
  { <<>>,
    <<SalesHeader>>,
    <<SalesHeader, SalesRowA, SalesRowB, <<>>>>,
    <<SalesHeader, SalesRowBadInt>>,
    <<SalesHeader, SalesRowBadCurrency, SalesRowA>>,
    <<SalesHeader, SalesRowFewer, SalesRowA>>,
    <<SalesHeader, SalesRowMore, SalesRowA>>,
    <<ShortSalesHeader, ShortRowA, ShortRowB>> }

HitsBodies ==
  { <<>>,
    <<HitsHeader>>,
    <<HitsHeader, HitsRowA, HitsRowB>>,
    <<HitsHeader, HitsRowEmptyAmount>>,
    <<HitsHeader, HitsRowBadAmount, HitsRowA>>,
    <<HitsHeader, HitsRowIsoDate, HitsRowA>>,
    <<HitsHeader, HitsRowBadDay, HitsRowB>>,
    <<HitsHeader, HitsRowFewer, HitsRowA>>,
    <<DateOnlyHeader, HitsRowFewer>> }

Bodies(stream) == IF stream = "sales" THEN SalesBodies ELSE HitsBodies

(***************************************************************************)
(* The run of one stream: the request loop TapAvantlinkStream inherits     *)
(* from RESTStream, which drives the stream's hooks (get_new_paginator,    *)
(* get_url_params, parse_response, post_process) and the paginator: the    *)
(* paginator is created, and while it is not finished the request for its  *)
(* current value is sent, every row of the response is post-processed and  *)
(* emitted, and the paginator advanced.                                    *)
(***************************************************************************)
MaxDay == 31

NowDay == 30

MaxRecords == 2

MaxIncrement == 3

VARIABLES
  stream,      \* the stream that runs: "sales" or "sales_hits"
  startDate,   \* config["start_date"]
  now,         \* the clock when the paginator is created
  pag,         \* the paginator
  pc,          \* where the run is
  requests,    \* the query parameters of the requests issued so far
  page,        \* the rows of the current response not yet post-processed
  gotRecord,   \* whether the current response held a row
  emitted,     \* the records handed to the sink so far
  error,       \* the exception that ended the run, "none" otherwise
  lastRow,     \* the last row given to post_process (<<>>: none yet)
  lastOut      \* what that post_process call did

vars == <<stream, startDate, now, pag, pc, requests, page, gotRecord, emitted,
          error, lastRow, lastOut>>

Streams == {"sales", "sales_hits"}

StartDates == {NoStartDate, BadStartDate} \cup {StartDateStr(d) : d \in 0..MaxDay}

Clock == {Days(NowDay) + t : t \in 0..(TicksPerDay - 1)}

NoCall == [exc |-> "none", row |-> <<>>, log |-> <<>>]

Init ==
  /\ stream \in Streams
  /\ startDate \in StartDates
  /\ now \in Clock
  /\ pag = NoPaginator
  /\ pc = "start"
  /\ requests = <<>>
  /\ page = <<>>
  /\ gotRecord = FALSE
  /\ emitted = <<>>
  /\ error = "none"
  /\ lastRow = <<>>
  /\ lastOut = NoCall

\* get_new_paginator(): an exception of the constructor ends the run
CreatePaginator ==
  /\ pc = "start"
  /\ LET r == get_new_paginator(startDate, now)
     IN /\ pag' = r.pag
        /\ error' = r.exc
        /\ pc' = IF r.exc = "none" THEN "request" ELSE "failed"
  /\ UNCHANGED <<stream, startDate, now, requests, page, gotRecord, emitted,
                 lastRow, lastOut>>

\* one turn of the loop "while not paginator.finished": the request for the
\* paginator's current value is sent and its response parsed
Request(body) ==
  /\ pc = "request"
  /\ ~pag.finished
  /\ Len(emitted) + Len(parse_response(body)) <= MaxRecords
  /\ requests' = Append(requests, get_url_params(stream, pag.value))
  /\ page' = parse_response(body)
  /\ gotRecord' = (parse_response(body) # <<>>)
  /\ pc' = "records"
  /\ UNCHANGED <<stream, startDate, now, pag, emitted, error, lastRow, lastOut>>

\* the request fails (connection error, status that is not 2xx)
TransportError ==
  /\ pc = "request"
  /\ ~pag.finished
  /\ requests' = Append(requests, get_url_params(stream, pag.value))
  /\ error' = "TransportError"
  /\ pc' = "failed"
  /\ UNCHANGED <<stream, startDate, now, pag, page, gotRecord, emitted, lastRow,
                 lastOut>>

\* the next row of the response goes through post_process and to the sink;
\* an exception of post_process ends the run
ProcessRecord ==
  /\ pc = "records"
  /\ page # <<>>
  /\ LET out == PostProcess(stream, Head(page))
     IN /\ lastRow' = Head(page)
        /\ lastOut' = out
        /\ IF out.exc = "none"
           THEN /\ emitted' = Append(emitted, out.row)
                /\ page' = Tail(page)
                /\ UNCHANGED <<pc, error>>
           ELSE /\ error' = out.exc
                /\ pc' = "failed"
                /\ UNCHANGED <<emitted, page>>
  /\ UNCHANGED <<stream, startDate, now, pag, requests, gotRecord>>

\* paginator.advance(response) once the rows of the response are through
Advance ==
  /\ pc = "records"
  /\ page = <<>>
  /\ LET r == advance(pag, IF gotRecord THEN "rows" ELSE "empty")
     IN /\ pag' = r.pag
        /\ error' = r.exc
        /\ pc' = IF r.exc # "none" THEN "failed"
                 ELSE IF r.pag.finished THEN "done" ELSE "request"
  /\ UNCHANGED <<stream, startDate, now, requests, page, gotRecord, emitted,
                 lastRow, lastOut>>

\* RESTStream's loop, in the releases that end it at the first response
\* without rows instead of advancing
StopOnEmptyPage ==
  /\ pc = "records"
  /\ page = <<>>
  /\ ~gotRecord
  /\ pc' = "done"
  /\ UNCHANGED <<stream, startDate, now, pag, requests, page, gotRecord, emitted,
                 error, lastRow, lastOut>>

Next ==
  \/ CreatePaginator
  \/ \E body \in Bodies(stream) : Request(body)
  \/ TransportError
  \/ ProcessRecord
  \/ Advance
  \/ StopOnEmptyPage

Spec == Init /\ [][Next]_vars

(***************************************************************************)
(* The paginator on its own: any start date, any positive increment, and   *)
(* advance() called with any response.                                     *)
(***************************************************************************)
Responses == {"rows", "empty", "error"}

PagInit ==
  /\ stream \in Streams
  /\ startDate \in {StartDateStr(d) : d \in 0..MaxDay}
  /\ now \in Clock
  /\ \E inc \in 1..MaxIncrement : pag = NewPaginator(startDate, inc, now).pag
  /\ pc = "paginator"
  /\ requests = <<>>
  /\ page = <<>>
  /\ gotRecord = FALSE
  /\ emitted = <<>>
  /\ error = "none"
  /\ lastRow = <<>>
  /\ lastOut = NoCall

PagAdvance(response) ==
  /\ pc = "paginator"
  /\ advance(pag, response).exc = "none"
  /\ pag' = advance(pag, response).pag
  /\ UNCHANGED <<stream, startDate, now, pc, requests, page, gotRecord, emitted,
                 error, lastRow, lastOut>>

PagNext == \E response \in Responses : PagAdvance(response)

PagSpec == PagInit /\ [][PagNext]_vars

\* advance() is called again and again
FairPagSpec == PagSpec /\ WF_vars(PagNext)

(***************************************************************************)
(* Properties                                                              *)
(***************************************************************************)
\* the start date is a well-formed date
HasStartDay == startDate.t = "str" /\ startDate.ok

\* the day of the clock when the paginator is created
Today == now \div TicksPerDay

\* C1: from any start date and for any positive increment, and whatever
\* response advance() is given, every advance while the cursor is before the
\* end bound moves the cursor by exactly increment days, an advance at or
\* past the end bound leaves it, and the cursor eventually reaches the end
\* bound, where has_more is false.
C1_AdvancesAndTerminates ==
  /\ [][/\ pag.value < pag.end => pag'.value = pag.value + Days(pag.increment)
        /\ pag.value >= pag.end => pag'.value = pag.value /\ pag'.finished
        /\ pag'.end = pag.end /\ pag'.increment = pag.increment]_vars
  /\ <>(pag.value >= pag.end /\ pag.finished)

\* a paginator that started before today, advanced at least twice and finished
C1_Witness ==
  /\ pc = "paginator"
  /\ startDate.day < Today
  /\ pag.finished
  /\ pag.value >= Days(startDate.day) + 2 * Days(pag.increment)
  /\ pag.value >= pag.end

\* the sanitized form of a parsed row
Sanitized(row) == sanitize_keys(row).row

ExpectedRecordA ==
  << [k |-> Col("Merchant", "Id"), v |-> PyInt(7)],
     [k |-> Col("Item", "Count"), v |-> PyInt(3)],
     [k |-> Col("Total", "Commission"), v |-> PyFloat(10, 0)] >>

ExpectedRecordB ==
  << [k |-> Col("Merchant", "Id"), v |-> PyInt(8)],
     [k |-> Col("Item", "Count"), v |-> PyNone],
     [k |-> Col("Total", "Commission"), v |-> PyFloat(-2, 0)] >>

\* a row as wide as its header
FullWidth(row) ==
  /\ ~DictHas(row, NoneKey)
  /\ \A i \in 1..Len(row) : row[i].v.t = "str"

\* C2: in the sales stream the rows ('7','3','$10.00') and ('8','','(2.00)')
\* under the header 'Merchant Id,Item Count,Total Commission' are emitted as
\* {Merchant_Id: 7, Item_Count: 3, Total_Commission: 10.0} and
\* {Merchant_Id: 8, Item_Count: null, Total_Commission: -2.0}, and every row
\* as wide as its header yields a record without an error.
C2_EndToEnd ==
  (stream = "sales" /\ lastRow # <<>> /\ FullWidth(lastRow)) =>
    /\ lastOut.exc = "none"
    /\ pc # "failed"
    /\ emitted # <<>> /\ emitted[Len(emitted)] = lastOut.row
    /\ lastRow = DictRow(ShortSalesHeader, ShortRowA) => lastOut.row = ExpectedRecordA
    /\ lastRow = DictRow(ShortSalesHeader, ShortRowB) => lastOut.row = ExpectedRecordB

\* a row that carries every rule field of the sales stream, as a string
HasSalesFields(row) ==
  /\ FullWidth(row)
  /\ \A i \in 1..Len(SalesIntCols) : DictHas(Sanitized(row), SalesIntCols[i])
  /\ \A i \in 1..Len(SalesFloatCols) : DictHas(Sanitized(row), SalesFloatCols[i])

\* C3: in the sales stream a rule field that cannot be converted keeps the
\* value it had before normalization, no error is raised, and every rule
\* field that can be converted is converted.
C3_FailureLeavesPriorValue ==
  (stream = "sales" /\ lastRow # <<>> /\ HasSalesFields(lastRow)) =>
    /\ lastOut.exc = "none"
    /\ \A i \in 1..Len(SalesIntCols) :
         LET prior == DictGet(Sanitized(lastRow), SalesIntCols[i])
             r     == set_none_or_cast(prior, "int")
         IN DictGet(lastOut.row, SalesIntCols[i]) =
              IF r.exc = "none" THEN r.v ELSE prior
    /\ \A i \in 1..Len(SalesFloatCols) :
         LET prior == DictGet(Sanitized(lastRow), SalesFloatCols[i])
             r     == set_none_or_cast(StripCurrency(prior).v, "float")
         IN DictGet(lastOut.row, SalesFloatCols[i]) =
              IF r.exc = "none" THEN r.v ELSE prior

\* C4: with a start_date on or after the current date no request is issued.
C4_NoWindowFromToday ==
  (HasStartDay /\ startDate.day >= Today) => requests = <<>>

\* C5: with a start_date before today, every window requested, and every
\* window the paginator holds as the next to fetch, starts before the
\* paginator's end bound.
C5_WindowsStartBeforeToday ==
  (HasStartDay /\ startDate.day < Today) =>
    /\ \A i \in 1..Len(requests) : ParseDT(requests[i].date_begin) < now
    /\ (pag.made /\ ~pag.finished) => pag.value < pag.end

\* a row with fewer or more fields than the header
Ragged(row) ==
  \/ DictHas(row, NoneKey)
  \/ \E i \in 1..Len(row) : row[i].v = PyNone

\* C6: a row whose width differs from the header's yields a record and does
\* not end the stream.
C6_RaggedRowPassesThrough ==
  (lastRow # <<>> /\ Ragged(lastRow)) =>
    /\ lastOut.exc = "none"
    /\ pc # "failed"
    /\ emitted # <<>> /\ emitted[Len(emitted)] = lastOut.row

\* the column as the report names it
RawAmountCol == <<"Transaction", " ", "Amount">>

\* what the sales stream's currency rule makes of the row's Transaction_Amount
SalesAmountRule(row) == SalesFloatStep(BasePostProcess(row), AmountCol)

\* the Date of the row is a string that strptime accepts
DateParses(row) ==
  /\ DictHas(row, DateCol)
  /\ DictGet(row, DateCol).t = "str"
  /\ StrpDate(DictGet(row, DateCol).s).exc = "none"

\* C7: in the sales_hits stream Transaction_Amount ends with the value the
\* sales stream's rule gives it, whether it is a currency string, the empty
\* string, an unconvertible string or absent, and the field never raises.
C7_SameAmountRule ==
  (stream = "sales_hits" /\ lastRow # <<>> /\ DateParses(lastRow)
     /\ (DictHas(lastRow, RawAmountCol) => DictGet(lastRow, RawAmountCol).t = "str")) =>
    /\ lastOut.exc = "none"
    /\ DictHas(lastOut.row, AmountCol) /\ SalesAmountRule(lastRow).exc = "none" =>
         DictGet(lastOut.row, AmountCol) = DictGet(SalesAmountRule(lastRow).row, AmountCol)

\* the Date of the row is a string that strptime rejects
DateFailsToParse(row) ==
  /\ DictHas(row, DateCol)
  /\ DictGet(row, DateCol).t = "str"
  /\ StrpDate(DictGet(row, DateCol).s).exc # "none"

ExampleDate == <<"3", "/", "4", "/", "2", "0", "2", "3", " ", "1", "3", ":", "0", "5">>

ExampleDateOut ==
  <<"2", "0", "2", "3", "-", "0", "3", "-", "0", "4", " ",
    "1", "3", ":", "0", "5", ":", "0", "0">>

\* no record emitted so far came from the given row
NotEmitted(row) ==
  \A i \in 1..Len(emitted) :
    DictGet(emitted[i], DateCol) # DictGet(row, DateCol)

\* C8: in the sales_hits stream a row whose Date does not parse as
\* MM/DD/YYYY HH:MM makes post_process raise ValueError: the run fails, the
\* row is not emitted and nothing is emitted afterwards; a Date that parses
\* is rewritten as YYYY-MM-DD HH:MM:SS ('3/4/2023 13:05' becomes
\* '2023-03-04 13:05:00').
C8_BadDateEndsStream ==
  /\ [](stream = "sales_hits" /\ lastRow # <<>> /\ FullWidth(lastRow) =>
          /\ DateFailsToParse(lastRow) =>
               /\ lastOut.exc = "ValueError"
               /\ pc = "failed" /\ error = "ValueError"
               /\ NotEmitted(lastRow)
          /\ DateParses(lastRow) =>
               /\ lastOut.exc # "ValueError"
               /\ DictGet(lastOut.row, DateCol) =
                    PyStr(StrfDate(StrpDate(DictGet(lastRow, DateCol).s)))
          /\ DictGet(lastRow, DateCol) = PyStr(ExampleDate) =>
               DictGet(lastOut.row, DateCol) = PyStr(ExampleDateOut))
  /\ [][pc = "failed" => pc' = "failed" /\ emitted' = emitted]_vars

\* a sales_hits run ended by an unparseable Date, with a later row of the
\* same response still waiting
C8_Witness ==
  /\ stream = "sales_hits"
  /\ pc = "failed"
  /\ error = "ValueError"
  /\ lastRow # <<>> /\ DateFailsToParse(lastRow)
  /\ Len(page) >= 2
  /\ Head(page) = lastRow

\* C9: without a start_date the run fails when the paginator is created:
\* no paginator exists, no request is issued and no record emitted.
C9_FailsFastWithoutStartDate ==
  startDate = NoStartDate =>
    /\ ~pag.made
    /\ requests = <<>>
    /\ emitted = <<>>
    /\ pc \in {"start", "failed"}
    /\ pc = "failed" => error = "TypeError"

C9_Witness == startDate = NoStartDate /\ pc = "failed" /\ error = "TypeError"

\* C10: every request's date_begin is the paginator's cursor when it is
\* sent and its date_end is date_begin plus the paginator's increment, even
\* past today; the first window starts at start_date and each later one
\* where the one before it ends.
C10_WindowsTile ==
  \A i \in 1..Len(requests) :
    /\ ParseDT(requests[i].date_end) =
         ParseDT(requests[i].date_begin) + Days(pag.increment)
    /\ pag.increment = 28
    /\ i = 1 => requests[i].date_begin = <<startDate.day, 0>>
    /\ i > 1 => requests[i].date_begin = requests[i - 1].date_end
    /\ (i = Len(requests) /\ pc = "records") =>
         ParseDT(requests[i].date_begin) = pag.value

\* three requests, the last for a window that ends after today
C10_Witness ==
  /\ Len(requests) >= 3
  /\ ParseDT(requests[Len(requests)].date_end) > now
  /\ pc = "done"

====
